---- MODULE Spec2Model ----
(***************************************************************************)
(* Optimistic "add todo" mutation against the React Query cache entry of   *)
(* CACHE_KEY_TODOS (useAddTodo, TodoForm, useTodos).                       *)
(*                                                                         *)
(* A Todo object is a record; its field ref stands for the identity of the *)
(* JavaScript object (what === compares), the other fields are its value.  *)
(* The cache entry is [present, data]: present = FALSE is getQueryData     *)
(* returning undefined.                                                    *)
(***************************************************************************)
EXTENDS Integers, Sequences, FiniteSets, TLC

MaxSubs == 2

Subs == 1..MaxSubs

\* what the text input (ref.current.value) may hold when the form is submitted
InputValues == {"", "milk", "eggs"}

\* ids the server may assign to a created todo (jsonplaceholder answers every
\* POST /todos with the same id)
ServerIds == {201}

NoTodo == [ref |-> 0, id |-> 0, title |-> "", completed |-> FALSE, userId |-> 0]

NoContext == [defined |-> FALSE, previousTodos |-> <<>>]

\* one object kept by the form and filled in again on every submit
NewTodoObjectReused(s, value) ==
  [ref |-> 1, id |-> 0, title |-> value, completed |-> FALSE, userId |-> 1]

\* the object literal built by TodoForm.onSubmit; one new object per call
NewTodoObject(s, value) ==
  [ref |-> s, id |-> 0, title |-> value, completed |-> FALSE, userId |-> 1]

\* res.data of the POST: a new object with the server's id
SavedTodoObject(s, todo, sid) ==
  [ref |-> 100 + s, id |-> sid, title |-> todo.title,
   completed |-> todo.completed, userId |-> todo.userId]

\* res.data of GET /todos: nothing, or one todo the server holds
FetchedTodo == [ref |-> 1000, id |-> 1, title |-> "old", completed |-> FALSE, userId |-> 1]

FetchResults == {<<>>, <<FetchedTodo>>}

VARIABLES
  cache,      \* the cache entry of CACHE_KEY_TODOS
  pc,         \* per submission: position in the mutation's life
  newTodo,    \* per submission: the object passed to mutate
  context,    \* per submission: what onMutate returned
  savedTodo,  \* per submission: the object the server returned
  mutError,   \* per submission: error of the mutation's state
  writes,     \* per submission: number of POSTs issued
  current,    \* the mutation the hook result (addTodo) reflects, 0 = none
  mounted,    \* the view (TodoForm, list using useTodos) is mounted
  fetching,   \* a GET of useTodos is in flight
  tasks,      \* the reducer state of TaskProvider: useReducer(tasksReducer, [])
  counter,    \* the reducer state of Counter: useReducer(counterReducer, 0)
  pageSize,   \* query.pageSize of the infinite posts query, 0 = PostList not mounted
  pages,      \* data.pages of the infinite posts query
  pageParams, \* the pageParam the queryFn ran with for each page of data.pages
  pageFetch,  \* the GET of the infinite posts query in flight
  page,       \* the page of the paginated posts list: useState(1)
  postsGet,   \* the params of the last GET of the paginated posts query
  user,       \* what useAuth returns as user, 0 = no user
  history,    \* the browser's history entries, the last one is the location
  rendered    \* the route elements on screen, outermost first

\* the state of the query cache and of the mutations
queryVars == <<cache, pc, newTodo, context, savedTodo, mutError, writes, current,
               mounted, fetching>>

\* the state held by the reducers of the state-management examples
stateVars == <<tasks, counter>>

\* the state of the posts queries
pageVars == <<pageSize, pages, pageParams, pageFetch, page, postsGet>>

\* the state of the router
routeVars == <<user, history, rendered>>

vars == <<cache, pc, newTodo, context, savedTodo, mutError, writes, current,
          mounted, fetching, tasks, counter,
          pageSize, pages, pageParams, pageFetch, page, postsGet,
          user, history, rendered>>

\* queryClient.getQueryData(CACHE_KEY_TODOS) || []
GetQueryDataOrEmpty(c) == IF c.present THEN c.data ELSE <<>>

\* queryClient.setQueryData(key, value)
SetQueryData(data) == [present |-> TRUE, data |-> data]

\* the === of JavaScript on two todo objects
SameObject(a, b) == a.ref = b.ref

\* value-level comparison of two todo objects
SameValue(a, b) ==
  /\ a.id = b.id
  /\ a.title = b.title
  /\ a.completed = b.completed
  /\ a.userId = b.userId

ContainsObject(seq, todo) == \E i \in 1..Len(seq) : SameObject(seq[i], todo)

ContainsValue(seq, todo) == \E i \in 1..Len(seq) : SameValue(seq[i], todo)

\* the insert with the new todo put last: (todos = []) => [...todos, newTodo]
OptimisticUpdaterAppend(todo, c) == SetQueryData(GetQueryDataOrEmpty(c) \o <<todo>>)

\* the insert without the default: (todos) => todos && [newTodo, ...todos]
OptimisticUpdaterNoDefault(todo, c) ==
  IF c.present THEN SetQueryData(<<todo>> \o c.data) ELSE c

\* onMutate's updater: (todos = []) => [newTodo, ...todos]
OptimisticUpdater(todo, c) == SetQueryData(<<todo>> \o GetQueryDataOrEmpty(c))

\* the success handler of the form without optimistic update used here:
\* (todos) => [savedTodo, ...(todos || [])]
ReplaceUpdaterPrepend(placeholder, saved, c) ==
  SetQueryData(<<saved>> \o GetQueryDataOrEmpty(c))

\* the replacement with the entry found by its id field:
\* todos?.map(todo => todo.id === newTodo.id ? savedTodo : todo)
ReplaceUpdaterById(placeholder, saved, c) ==
  IF c.present
    THEN SetQueryData([i \in 1..Len(c.data) |->
                         IF c.data[i].id = placeholder.id THEN saved ELSE c.data[i]])
    ELSE c

\* the replacement that puts the saved todo first when the placeholder is not
\* found
ReplaceUpdaterOrInsert(placeholder, saved, c) ==
  IF ContainsObject(GetQueryDataOrEmpty(c), placeholder)
    THEN SetQueryData([i \in 1..Len(c.data) |->
                         IF SameObject(c.data[i], placeholder) THEN saved ELSE c.data[i]])
    ELSE SetQueryData(<<saved>> \o GetQueryDataOrEmpty(c))

\* onSuccess's updater: todos?.map(todo => todo === newTodo ? savedTodo : todo);
\* an updater that returns undefined leaves the entry as it is
ReplaceUpdater(placeholder, saved, c) ==
  IF c.present
    THEN SetQueryData([i \in 1..Len(c.data) |->
                         IF SameObject(c.data[i], placeholder) THEN saved ELSE c.data[i]])
    ELSE c

\* the rollback done by dropping the first element instead of restoring
RollbackDataDropFirst(ctx, c) ==
  SetQueryData(IF Len(GetQueryDataOrEmpty(c)) > 0 THEN Tail(c.data) ELSE <<>>)

\* onError's write: setQueryData(CACHE_KEY_TODOS, context.previousTodos)
RollbackData(ctx, c) == SetQueryData(ctx.previousTodos)

\* previousTodos after an updater that inserts in place
\* (todos.unshift(newTodo)): the captured array is the one the cache holds
PreviousTodosAfterUnshift(todo, c) ==
  IF c.present THEN <<todo>> \o c.data ELSE <<>>

\* the content of previousTodos when onMutate returns: getQueryData() || []
\* read before the insert; the updater spreads todos into a new array, so the
\* captured array keeps the content it had
PreviousTodos(todo, c) == GetQueryDataOrEmpty(c)

\* addTodo.error: the error of the mutation the hook currently observes
AddTodoError == IF current = 0 THEN FALSE ELSE mutError[current]

----------------------------------------------------------------------------
(***************************************************************************)
(* The posts queries: usePosts with a page number (useQuery) and usePosts  *)
(* as an infinite query (useInfiniteQuery).  A post is its position in the *)
(* server's list, counted from 1; a GET with _start and _limit answers     *)
(* with posts _start + 1, _start + 2, ... (at most _limit of them).        *)
(***************************************************************************)

MaxPages == 3

MaxPageSize == 2

\* the values of query.pageSize tried (PostList passes 10)
PageSizes == 1..MaxPageSize

\* undefined as a page parameter (page parameters start at 1)
Undefined == 0

\* no GET: in flight, or issued yet
NoGet == [pageParam |-> Undefined, _start |-> 0, _limit |-> 0]

\* params of the GET built by the queryFn; the paginated query builds the
\* same from query.page: _start: (pageParam - 1) + query.pageSize
QueryParams(pageParam, size) ==
  [pageParam |-> pageParam, _start |-> (pageParam - 1) + size, _limit |-> size]

\* ({ pageParam = 1 }): the default of the queryFn's parameter
PageParamOrDefault(pageParam) == IF pageParam = Undefined THEN 1 ELSE pageParam

\* res.data of a GET that finds n posts in its window
PostsFound(get, n) == [i \in 1..n |-> get._start + i]

\* the next parameter counted from the pages: allPages.length
getNextPageParamOffByOne(lastPage, allPages) ==
  IF Len(lastPage) > 0 THEN Len(allPages) ELSE Undefined

\* lastPage.length > 0 ? allPages.length + 1 : undefined
getNextPageParam(lastPage, allPages) ==
  IF Len(lastPage) > 0 THEN Len(allPages) + 1 ELSE Undefined

----------------------------------------------------------------------------
(***************************************************************************)
(* The router: a location is the sequence of the segments of its path;     *)
(* what is on screen is the sequence of the route elements rendered, the   *)
(* outermost first, each with the text it shows.                           *)
(***************************************************************************)

MaxHistory == 4

\* the users who may be signed in (0 = no user)
Users == {0, 1}

HomePath == <<>>

LoginPath == <<"login">>

\* the locations a link, the address bar or navigate() may ask for
Paths == {HomePath, LoginPath, <<"users">>, <<"users", "1">>, <<"users", "2">>,
          <<"posts">>}

\* a rendered element and the text it shows
El(element, text) == [element |-> element, text |-> text]

\* <Navigate to="/login" />
NavigateToLogin == <<El("PrivateRoutes", ""), El("Navigate", "/login")>>

\* UserDetail: <p>User {params.id}</p>
UserDetail(params) == El("UserDetail", params.id)

\* UsersPage with its <Outlet />
UsersPage(outlet) == <<El("UsersPage", "")>> \o outlet

\* the layout route that lets its children render whoever asks
PrivateRoutesOpen(u, outlet) == <<El("PrivateRoutes", "")>> \o outlet

\* PrivateRoutes: if (!user) return <Navigate to="/login" />; return <Outlet />
PrivateRoutes(u, outlet) ==
  IF u = 0 THEN NavigateToLogin ELSE <<El("PrivateRoutes", "")>> \o outlet

\* the route table of createBrowserRouter matched against a location
RouterRender(path, u) ==
  CASE path = HomePath -> <<El("Layout", ""), El("HomePage", "")>>
    [] path = LoginPath -> <<El("Layout", ""), El("LoginPage", "")>>
    [] Len(path) = 1 /\ path[1] = "users" -> PrivateRoutes(u, UsersPage(<<>>))
    [] Len(path) = 2 /\ path[1] = "users" ->
         PrivateRoutes(u, UsersPage(<<UserDetail([id |-> path[2]])>>))
    [] OTHER -> <<El("ErrorPage", "")>>

\* the elements named e among those rendered
Shows(els, e) == \E i \in 1..Len(els) : els[i].element = e

Init ==
  /\ cache = [present |-> FALSE, data |-> <<>>]
  /\ pc = [s \in Subs |-> "idle"]
  /\ newTodo = [s \in Subs |-> NoTodo]
  /\ context = [s \in Subs |-> NoContext]
  /\ savedTodo = [s \in Subs |-> NoTodo]
  /\ mutError = [s \in Subs |-> FALSE]
  /\ writes = [s \in Subs |-> 0]
  /\ current = 0
  /\ mounted = TRUE
  /\ fetching = FALSE
  /\ tasks = <<>>
  /\ counter = 0
  /\ pageSize = 0
  /\ pages = <<>>
  /\ pageParams = <<>>
  /\ pageFetch = NoGet
  /\ page = 1
  /\ postsGet = NoGet
  /\ user = 0
  /\ history = <<HomePath>>
  /\ rendered = <<El("Layout", ""), El("HomePage", "")>>

\* the submit handler of a form that is blocked while an error is displayed
SubmitUnlessError(s, value, onAddThrows) ==
  /\ mounted
  /\ ~AddTodoError
  /\ value # ""
  /\ pc[s] = "idle"
  /\ \A t \in Subs : t < s => pc[t] # "idle"
  /\ LET todo == NewTodoObject(s, value)
         previousTodos == PreviousTodos(todo, cache)
     IN /\ newTodo' = [newTodo EXCEPT ![s] = todo]
        /\ cache' = OptimisticUpdater(todo, cache)
        /\ current' = s
        /\ IF onAddThrows
             THEN /\ pc' = [pc EXCEPT ![s] = "mutateThrew"]
                  /\ UNCHANGED context
             ELSE /\ pc' = [pc EXCEPT ![s] = "optimistic"]
                  /\ context' = [context EXCEPT ![s] =
                                   [defined |-> TRUE, previousTodos |-> previousTodos]]
  /\ UNCHANGED <<savedTodo, mutError, writes, mounted, fetching>>
  /\ UNCHANGED <<stateVars, pageVars, routeVars>>

\* TodoForm.onSubmit -> addTodo.mutate(newTodo) -> onMutate(newTodo).
\* value: the text in the input; onAddThrows: the onAdd callback handed to
\* useAddTodo throws.
Submit(s, value, onAddThrows) ==
  /\ mounted
  /\ value # ""
  /\ pc[s] = "idle"
  /\ \A t \in Subs : t < s => pc[t] # "idle"
  /\ LET todo == NewTodoObject(s, value)
         previousTodos == PreviousTodos(todo, cache)
     IN /\ newTodo' = [newTodo EXCEPT ![s] = todo]
        /\ cache' = OptimisticUpdater(todo, cache)
        /\ current' = s
        /\ IF onAddThrows
             THEN /\ pc' = [pc EXCEPT ![s] = "mutateThrew"]
                  /\ UNCHANGED context
             ELSE /\ pc' = [pc EXCEPT ![s] = "optimistic"]
                  /\ context' = [context EXCEPT ![s] =
                                   [defined |-> TRUE, previousTodos |-> previousTodos]]
  /\ UNCHANGED <<savedTodo, mutError, writes, mounted, fetching>>
  /\ UNCHANGED <<stateVars, pageVars, routeVars>>

\* the POST issued again after a failure (a retry policy on the mutation)
MutationFnRetry(s) ==
  /\ pc[s] \in {"optimistic", "rolledBack"}
  /\ pc' = [pc EXCEPT ![s] = "inflight"]
  /\ writes' = [writes EXCEPT ![s] = @ + 1]
  /\ UNCHANGED <<cache, newTodo, context, savedTodo, mutError, current,
                 mounted, fetching>>
  /\ UNCHANGED <<stateVars, pageVars, routeVars>>

\* the POST issued only while the view is mounted (the mutation cancelled
\* with its view)
MutationFnIfMounted(s) ==
  /\ mounted
  /\ pc[s] = "optimistic"
  /\ pc' = [pc EXCEPT ![s] = "inflight"]
  /\ writes' = [writes EXCEPT ![s] = @ + 1]
  /\ UNCHANGED <<cache, newTodo, context, savedTodo, mutError, current,
                 mounted, fetching>>
  /\ UNCHANGED <<stateVars, pageVars, routeVars>>

\* mutationFn: the POST is issued once onMutate has returned
MutationFn(s) ==
  /\ pc[s] = "optimistic"
  /\ pc' = [pc EXCEPT ![s] = "inflight"]
  /\ writes' = [writes EXCEPT ![s] = @ + 1]
  /\ UNCHANGED <<cache, newTodo, context, savedTodo, mutError, current,
                 mounted, fetching>>
  /\ UNCHANGED <<stateVars, pageVars, routeVars>>

\* the POST resolves: onSuccess(savedTodo, newTodo)
OnSuccess(s, sid) ==
  /\ pc[s] = "inflight"
  /\ LET saved == SavedTodoObject(s, newTodo[s], sid)
     IN /\ savedTodo' = [savedTodo EXCEPT ![s] = saved]
        /\ cache' = ReplaceUpdater(newTodo[s], saved, cache)
  /\ pc' = [pc EXCEPT ![s] = "reconciled"]
  /\ UNCHANGED <<newTodo, context, mutError, writes, current,
                 mounted, fetching>>
  /\ UNCHANGED <<stateVars, pageVars, routeVars>>

\* the error handler run for a mutation that was already reconciled
OnErrorAfterSuccess(s) ==
  /\ pc[s] \in {"inflight", "mutateThrew", "reconciled"}
  /\ mutError' = [mutError EXCEPT ![s] = TRUE]
  /\ IF ~context[s].defined
       THEN /\ pc' = [pc EXCEPT ![s] = "errored"]
            /\ UNCHANGED cache
       ELSE /\ pc' = [pc EXCEPT ![s] = "rolledBack"]
            /\ cache' = SetQueryData(context[s].previousTodos)
  /\ UNCHANGED <<newTodo, context, savedTodo, writes, current,
                 mounted, fetching>>
  /\ UNCHANGED <<stateVars, pageVars, routeVars>>

\* the POST rejects, or onMutate threw: onError(error, newTodo, context)
OnError(s) ==
  /\ pc[s] \in {"inflight", "mutateThrew"}
  /\ mutError' = [mutError EXCEPT ![s] = TRUE]
  /\ IF ~context[s].defined
       THEN /\ pc' = [pc EXCEPT ![s] = "errored"]
            /\ UNCHANGED cache
       ELSE /\ pc' = [pc EXCEPT ![s] = "rolledBack"]
            /\ cache' = RollbackData(context[s], cache)
  /\ UNCHANGED <<newTodo, context, savedTodo, writes, current,
                 mounted, fetching>>
  /\ UNCHANGED <<stateVars, pageVars, routeVars>>

\* useTodos: the query of CACHE_KEY_TODOS starts a GET (mount, refetch)
FetchStart ==
  /\ mounted
  /\ ~fetching
  /\ fetching' = TRUE
  /\ UNCHANGED <<cache, pc, newTodo, context, savedTodo, mutError, writes,
                 current, mounted>>
  /\ UNCHANGED <<stateVars, pageVars, routeVars>>

\* the GET resolves: its result becomes the cache entry
FetchSuccess(result) ==
  /\ fetching
  /\ fetching' = FALSE
  /\ cache' = SetQueryData(result)
  /\ UNCHANGED <<pc, newTodo, context, savedTodo, mutError, writes, current,
                 mounted>>
  /\ UNCHANGED <<stateVars, pageVars, routeVars>>

\* the GET rejects: the cache entry keeps its data
FetchError ==
  /\ fetching
  /\ fetching' = FALSE
  /\ UNCHANGED <<cache, pc, newTodo, context, savedTodo, mutError, writes,
                 current, mounted>>
  /\ UNCHANGED <<stateVars, pageVars, routeVars>>

\* the teardown that removes the query at once (no cacheTime)
UnmountRemovesEntry ==
  /\ mounted
  /\ mounted' = FALSE
  /\ cache' = [present |-> FALSE, data |-> <<>>]
  /\ UNCHANGED <<pc, newTodo, context, savedTodo, mutError, writes, current,
                 fetching>>
  /\ UNCHANGED <<stateVars, pageVars, routeVars>>

\* the view is torn down; mutations and fetches in flight go on
Unmount ==
  /\ mounted
  /\ mounted' = FALSE
  /\ UNCHANGED <<cache, pc, newTodo, context, savedTodo, mutError, writes,
                 current, fetching>>
  /\ UNCHANGED <<stateVars, pageVars, routeVars>>

\* the view is shown again
Mount ==
  /\ ~mounted
  /\ mounted' = TRUE
  /\ UNCHANGED <<cache, pc, newTodo, context, savedTodo, mutError, writes,
                 current, fetching>>
  /\ UNCHANGED <<stateVars, pageVars, routeVars>>

\* cacheTime has passed with no observer: the entry is garbage collected
Evict ==
  /\ ~mounted
  /\ ~fetching
  /\ cache.present
  /\ cache' = [present |-> FALSE, data |-> <<>>]
  /\ UNCHANGED <<pc, newTodo, context, savedTodo, mutError, writes, current,
                 mounted, fetching>>
  /\ UNCHANGED <<stateVars, pageVars, routeVars>>

Next ==
  \/ \E s \in Subs, value \in InputValues, onAddThrows \in BOOLEAN :
       Submit(s, value, onAddThrows)
  \/ \E s \in Subs : MutationFn(s)
  \/ \E s \in Subs, sid \in ServerIds : OnSuccess(s, sid)
  \/ \E s \in Subs : OnError(s)
  \/ FetchStart
  \/ \E result \in FetchResults : FetchSuccess(result)
  \/ FetchError
  \/ Unmount
  \/ Mount
  \/ Evict

Spec == Init /\ [][Next]_vars

\* the POST of submission s gets its response
Respond(s) == (\E sid \in ServerIds : OnSuccess(s, sid)) \/ OnError(s)

\* the submissions and the life of the view, without the fetches of useTodos
\* (a fetch neither reads nor changes the position of a mutation)
NextTeardown ==
  \/ \E s \in Subs, value \in InputValues, onAddThrows \in BOOLEAN :
       Submit(s, value, onAddThrows)
  \/ \E s \in Subs : MutationFn(s)
  \/ \E s \in Subs, sid \in ServerIds : OnSuccess(s, sid)
  \/ \E s \in Subs : OnError(s)
  \/ Unmount
  \/ Mount
  \/ Evict

\* the promise chain of a mutation goes on once started, and every remote
\* write eventually responds
FairSpec ==
  /\ Init
  /\ [][NextTeardown]_vars
  /\ \A s \in Subs : WF_vars(MutationFn(s)) /\ WF_vars(Respond(s))

----------------------------------------------------------------------------
(***************************************************************************)
(* TodoForm without optimistic update ("Mutate data", "Mutation error      *)
(* handling"): the mutation has a mutationFn and an onSuccess only.        *)
(***************************************************************************)

\* the updater without the default: (todos) => [savedTodo, ...todos], which
\* cannot build a list when there is no entry
SavedUpdaterNoDefault(saved, c) ==
  IF c.present THEN SetQueryData(<<saved>> \o c.data) ELSE c

\* onSuccess's updater: (todos) => [savedTodo, ...(todos || [])]
SavedUpdater(saved, c) == SetQueryData(<<saved>> \o GetQueryDataOrEmpty(c))

\* TodoForm.onSubmit -> addTodo.mutate(newTodo) -> mutationFn(newTodo)
PlainSubmit(s, value) ==
  /\ mounted
  /\ value # ""
  /\ pc[s] = "idle"
  /\ \A t \in Subs : t < s => pc[t] # "idle"
  /\ newTodo' = [newTodo EXCEPT ![s] = NewTodoObject(s, value)]
  /\ current' = s
  /\ pc' = [pc EXCEPT ![s] = "inflight"]
  /\ writes' = [writes EXCEPT ![s] = @ + 1]
  /\ UNCHANGED <<cache, context, savedTodo, mutError, mounted, fetching>>
  /\ UNCHANGED <<stateVars, pageVars, routeVars>>

\* the POST resolves: onSuccess(savedTodo, newTodo)
PlainOnSuccess(s, sid) ==
  /\ pc[s] = "inflight"
  /\ LET saved == SavedTodoObject(s, newTodo[s], sid)
     IN /\ savedTodo' = [savedTodo EXCEPT ![s] = saved]
        /\ cache' = SavedUpdater(saved, cache)
  /\ pc' = [pc EXCEPT ![s] = "succeeded"]
  /\ UNCHANGED <<newTodo, context, mutError, writes, current, mounted, fetching>>
  /\ UNCHANGED <<stateVars, pageVars, routeVars>>

\* the POST rejects: the mutation has no onError, its state takes the error
PlainOnError(s) ==
  /\ pc[s] = "inflight"
  /\ mutError' = [mutError EXCEPT ![s] = TRUE]
  /\ pc' = [pc EXCEPT ![s] = "errored"]
  /\ UNCHANGED <<cache, newTodo, context, savedTodo, writes, current, mounted,
                 fetching>>
  /\ UNCHANGED <<stateVars, pageVars, routeVars>>

NextPlain ==
  \/ \E s \in Subs, value \in InputValues : PlainSubmit(s, value)
  \/ \E s \in Subs, sid \in ServerIds : PlainOnSuccess(s, sid)
  \/ \E s \in Subs : PlainOnError(s)
  \/ FetchStart
  \/ \E result \in FetchResults : FetchSuccess(result)
  \/ FetchError
  \/ Unmount
  \/ Mount
  \/ Evict

SpecPlain == Init /\ [][NextPlain]_vars

----------------------------------------------------------------------------
(***************************************************************************)
(* The reducers of the state-management examples: the task list held by    *)
(* TaskProvider and the counter held by Counter.                           *)
(***************************************************************************)

MaxTasks == 3

MaxCount == 3

\* the values Date.now() may give while the task list is in use
Timestamps == {1, 2}

\* { id: Date.now(), title: "Task " + Date.now() }: two readings of the clock
NewTask(now, later) == [id |-> now, title |-> <<"Task ", later>>]

AddTask(task) == [type |-> "ADD", task |-> task, taskId |-> 0]

DeleteTask(taskId) == [type |-> "DELETE", task |-> NewTask(0, 0), taskId |-> taskId]

\* an action object whose type is neither ADD nor DELETE
OtherTaskAction == [type |-> "OTHER", task |-> NewTask(0, 0), taskId |-> 0]

Tasks == {NewTask(now, later) : now \in Timestamps, later \in Timestamps}

TaskActions ==
  {AddTask(task) : task \in Tasks}
    \cup {DeleteTask(taskId) : taskId \in Timestamps}
    \cup {OtherTaskAction}

\* tasks.filter(task => task.id !== taskId)
FilterOut(ts, taskId) == SelectSeq(ts, LAMBDA task : task.id # taskId)

\* ADD that leaves out a task whose id is already in the list
tasksReducerSkipDuplicate(ts, action) ==
  IF action.type = "ADD"
    THEN IF \E i \in 1..Len(ts) : ts[i].id = action.task.id
           THEN ts
           ELSE <<action.task>> \o ts
    ELSE IF action.type = "DELETE"
      THEN FilterOut(ts, action.taskId)
      ELSE ts

\* DELETE that removes only the first task with the id (findIndex + splice)
tasksReducerDeleteFirst(ts, action) ==
  IF action.type = "ADD"
    THEN <<action.task>> \o ts
    ELSE IF action.type = "DELETE"
      THEN IF \E i \in 1..Len(ts) : ts[i].id = action.taskId
             THEN LET k == CHOOSE i \in 1..Len(ts) :
                             /\ ts[i].id = action.taskId
                             /\ \A j \in 1..(i - 1) : ts[j].id # action.taskId
                  IN SubSeq(ts, 1, k - 1) \o SubSeq(ts, k + 1, Len(ts))
             ELSE ts
      ELSE ts

tasksReducer(ts, action) ==
  IF action.type = "ADD"
    THEN <<action.task>> \o ts
    ELSE IF action.type = "DELETE"
      THEN FilterOut(ts, action.taskId)
      ELSE ts

CounterActionTypes == {"INCREMENT", "DECREMENT", "RESET"}

\* DECREMENT copied from INCREMENT without changing the sign
counterReducerDecrementAdds(state, type) ==
  CASE type = "INCREMENT" -> state + 1
    [] type = "DECREMENT" -> state + 1
    [] type = "RESET" -> 0

counterReducer(state, type) ==
  CASE type = "INCREMENT" -> state + 1
    [] type = "DECREMENT" -> state - 1
    [] type = "RESET" -> 0

\* NavBar showing the counter of the store instead of the task count
NavBarCountOfCounter == counter

\* NavBar: {context.tasks.length}
NavBarCount == Len(tasks)

\* TaskList: one <li key={task.id}> with the title per task of context.tasks
TaskListRows == [i \in 1..Len(tasks) |-> [key |-> tasks[i].id, title |-> tasks[i].title]]

\* TaskList, Add Task: dispatch({type: "ADD", task: {id: Date.now(), ...}})
AddTaskClick(now, later) ==
  /\ now <= later
  /\ Len(tasks) < MaxTasks
  /\ tasks' = tasksReducer(tasks, AddTask(NewTask(now, later)))
  /\ UNCHANGED counter
  /\ UNCHANGED <<queryVars, pageVars, routeVars>>

\* TaskList, Delete of row i: dispatch({type: "DELETE", taskId: task.id})
DeleteTaskClick(i) ==
  /\ i \in 1..Len(tasks)
  /\ tasks' = tasksReducer(tasks, DeleteTask(tasks[i].id))
  /\ UNCHANGED counter
  /\ UNCHANGED <<queryVars, pageVars, routeVars>>

\* any consumer of TasksContext: context.dispatch(action)
TaskDispatch(action) ==
  /\ Len(tasksReducer(tasks, action)) <= MaxTasks
  /\ tasks' = tasksReducer(tasks, action)
  /\ UNCHANGED counter
  /\ UNCHANGED <<queryVars, pageVars, routeVars>>

\* dispatch({type}) on the state of useReducer(counterReducer, 0)
CounterDispatch(type) ==
  /\ counterReducer(counter, type) \in (0 - MaxCount)..MaxCount
  /\ counter' = counterReducer(counter, type)
  /\ UNCHANGED tasks
  /\ UNCHANGED <<queryVars, pageVars, routeVars>>

NextState ==
  \/ \E now \in Timestamps, later \in Timestamps : AddTaskClick(now, later)
  \/ \E i \in 1..MaxTasks : DeleteTaskClick(i)
  \/ \E action \in TaskActions : TaskDispatch(action)
  \/ \E type \in CounterActionTypes : CounterDispatch(type)

SpecState == Init /\ [][NextState]_vars

----------------------------------------------------------------------------
(***************************************************************************)
(* The posts lists: the infinite list (PostList with "Load more") and the  *)
(* list shown page by page.                                                *)
(***************************************************************************)

\* PostList is mounted: usePosts({ pageSize }) fetches the first page, the
\* queryFn runs without a pageParam
PostListMount(size) ==
  /\ pageSize = 0
  /\ pageSize' = size
  /\ pageFetch' = QueryParams(PageParamOrDefault(Undefined), size)
  /\ UNCHANGED <<pages, pageParams, page, postsGet>>
  /\ UNCHANGED <<queryVars, stateVars, routeVars>>

\* "Load more": fetchNextPage(); the button is disabled while a next page is
\* being fetched, and is rendered with the pages of data.pages.  Without a next
\* page parameter no GET is issued.
FetchNextPage ==
  /\ pageSize # 0
  /\ pageFetch = NoGet
  /\ Len(pages) > 0
  /\ Len(pages) < MaxPages
  /\ LET pageParam == getNextPageParam(pages[Len(pages)], pages)
     IN IF pageParam = Undefined
          THEN UNCHANGED pageFetch
          ELSE pageFetch' = QueryParams(PageParamOrDefault(pageParam), pageSize)
  /\ UNCHANGED <<pageSize, pages, pageParams, page, postsGet>>
  /\ UNCHANGED <<queryVars, stateVars, routeVars>>

\* the GET resolves with the n posts of its window: the page is added to
\* data.pages
PageLoaded(n) ==
  /\ pageFetch # NoGet
  /\ n <= pageFetch._limit
  /\ pages' = Append(pages, PostsFound(pageFetch, n))
  /\ pageParams' = Append(pageParams, pageFetch.pageParam)
  /\ pageFetch' = NoGet
  /\ UNCHANGED <<pageSize, page, postsGet>>
  /\ UNCHANGED <<queryVars, stateVars, routeVars>>

\* the GET rejects: data.pages keeps the pages it has
PageFailed ==
  /\ pageFetch # NoGet
  /\ pageFetch' = NoGet
  /\ UNCHANGED <<pageSize, pages, pageParams, page, postsGet>>
  /\ UNCHANGED <<queryVars, stateVars, routeVars>>

\* the list shown page by page: setPage(p) renders usePosts({ page, pageSize }),
\* whose queryFn issues the GET of that page
ShowPage(p, size) ==
  /\ page' = p
  /\ postsGet' = QueryParams(p, size)
  /\ UNCHANGED <<pageSize, pages, pageParams, pageFetch>>
  /\ UNCHANGED <<queryVars, stateVars, routeVars>>

NextPosts ==
  \/ \E size \in PageSizes : PostListMount(size)
  \/ FetchNextPage
  \/ \E n \in 0..MaxPageSize : PageLoaded(n)
  \/ PageFailed
  \/ \E p \in 1..MaxPages, size \in PageSizes : ShowPage(p, size)

SpecPosts == Init /\ [][NextPosts]_vars

----------------------------------------------------------------------------
(***************************************************************************)
(* Navigation: the router renders the last entry of the history; a         *)
(* rendered <Navigate /> pushes its target and the router renders again.   *)
(***************************************************************************)

Location(h) == h[Len(h)]

\* a location under the route with path "users"
IsUsersPath(path) == Len(path) \in {1, 2} /\ path[1] = "users"

\* the history and the screen once the router has rendered the location of
\* h for user u and followed a <Navigate />
Land(h, u) ==
  IF Shows(RouterRender(Location(h), u), "Navigate")
    THEN [history |-> Append(h, LoginPath), rendered |-> RouterRender(LoginPath, u)]
    ELSE [history |-> h, rendered |-> RouterRender(Location(h), u)]

\* a link, navigate(path) or the address bar asks for a location
GoTo(path) ==
  /\ Len(history) < MaxHistory
  /\ LET landed == Land(Append(history, path), user)
     IN /\ history' = landed.history
        /\ rendered' = landed.rendered
  /\ UNCHANGED user
  /\ UNCHANGED <<queryVars, stateVars, pageVars>>

\* the browser's back button
GoBack ==
  /\ Len(history) > 1
  /\ LET landed == Land(SubSeq(history, 1, Len(history) - 1), user)
     IN /\ history' = landed.history
        /\ rendered' = landed.rendered
  /\ UNCHANGED user
  /\ UNCHANGED <<queryVars, stateVars, pageVars>>

\* useAuth returns another user (sign in, sign out): the components that use
\* the hook are rendered again
AuthChange(u) ==
  /\ u # user
  /\ user' = u
  /\ LET landed == Land(history, u)
     IN /\ history' = landed.history
        /\ rendered' = landed.rendered
  /\ UNCHANGED <<queryVars, stateVars, pageVars>>

NextRouting ==
  \/ \E path \in Paths : GoTo(path)
  \/ GoBack
  \/ \E u \in Users : AuthChange(u)

SpecRouting == Init /\ [][NextRouting]_vars

\* the submissions alone: no query on the key, the view stays mounted
NextMutations ==
  \/ \E s \in Subs, value \in InputValues, onAddThrows \in BOOLEAN :
       Submit(s, value, onAddThrows)
  \/ \E s \in Subs : MutationFn(s)
  \/ \E s \in Subs, sid \in ServerIds : OnSuccess(s, sid)
  \/ \E s \in Subs : OnError(s)

SpecMutations == Init /\ [][NextMutations]_vars

\* the submissions and the fetches of useTodos, the view staying mounted
NextLive ==
  \/ \E s \in Subs, value \in InputValues, onAddThrows \in BOOLEAN :
       Submit(s, value, onAddThrows)
  \/ \E s \in Subs : MutationFn(s)
  \/ \E s \in Subs, sid \in ServerIds : OnSuccess(s, sid)
  \/ \E s \in Subs : OnError(s)
  \/ FetchStart
  \/ \E result \in FetchResults : FetchSuccess(result)
  \/ FetchError

SpecLive == Init /\ [][NextLive]_vars

TypeOK ==
  /\ cache.present \in BOOLEAN
  /\ \A s \in Subs : pc[s] \in {"idle", "mutateThrew", "optimistic", "inflight",
                                "reconciled", "rolledBack", "errored",
                                "succeeded"}
  /\ current \in 0..MaxSubs

----------------------------------------------------------------------------
\* the sequence held by the cache entry (empty when the entry is absent)
CacheData == GetQueryDataOrEmpty(cache)

Pending(s) == pc[s] \in {"optimistic", "inflight"}

\* the step in which submission s is made
SubmitStep(s) == pc[s] = "idle" /\ pc'[s] # "idle"

\* the steps in which submission s is reconciled / rolled back
ReconcileStep(s) == pc[s] # "reconciled" /\ pc'[s] = "reconciled"

RollbackStep(s) == pc[s] # "rolledBack" /\ pc'[s] = "rolledBack"

\* C1: after the reconcile step of a submission whose write succeeded, under
\* any interleaving with other submissions, the cache entry contains the
\* server-returned item (by value) and not the submission's placeholder.
C1_ReconcileLeavesSavedItem ==
  [][\A s \in Subs :
       ReconcileStep(s) =>
         /\ ContainsValue(GetQueryDataOrEmpty(cache'), savedTodo'[s])
         /\ ~ContainsObject(GetQueryDataOrEmpty(cache'), newTodo[s])]_vars

\* C2: right after the rollback step of a failed submission the cache entry
\* equals the snapshot taken immediately before that submission's optimistic
\* insert (the insert put the placeholder in front of exactly that snapshot);
\* an empty snapshot gives back an empty entry.
C2_RollbackRestoresSnapshot ==
  [][\A s \in Subs :
       /\ (SubmitStep(s) /\ context'[s].defined) =>
            /\ context'[s].previousTodos = CacheData
            /\ GetQueryDataOrEmpty(cache') = <<newTodo'[s]>> \o context'[s].previousTodos
       /\ (~SubmitStep(s)) => context'[s] = context[s]
       /\ RollbackStep(s) =>
            /\ writes[s] = 1
            /\ cache'.present
            /\ cache'.data = context[s].previousTodos
            /\ (context[s].previousTodos = <<>> => cache'.data = <<>>)]_vars

C2_Witness ==
  \E s \in Subs :
    /\ pc[s] = "rolledBack"
    /\ cache.present
    /\ cache.data = context[s].previousTodos
    /\ Len(cache.data) > 0
    /\ \E t \in Subs : t # s /\ pc[t] = "reconciled"

\* C3: for two overlapping submissions a (first) and b, with a's response
\* arriving after b's, the reconcile or rollback step of one of them leaves
\* the other's entry in the cache exactly when it was there before.
C3_SettlementKeepsOtherEntry ==
  [][\A a, b \in Subs :
       a < b =>
         /\ ((ReconcileStep(b) \/ RollbackStep(b)) /\ Pending(a)) =>
              (ContainsObject(GetQueryDataOrEmpty(cache'), newTodo[a])
                 <=> ContainsObject(CacheData, newTodo[a]))
         /\ ((ReconcileStep(a) \/ RollbackStep(a)) /\ pc[b] = "reconciled") =>
              (ContainsObject(GetQueryDataOrEmpty(cache'), savedTodo[b])
                 <=> ContainsObject(CacheData, savedTodo[b]))]_vars

\* C4: a is submitted, b is submitted while a is pending (b's snapshot holds
\* a's placeholder), a is reconciled, then b fails: after b's rollback the
\* cache entry still contains a's server-returned item.
C4_RollbackKeepsReconciled ==
  [][\A a, b \in Subs :
       (/\ a < b
        /\ RollbackStep(b)
        /\ pc[a] = "reconciled"
        /\ ContainsObject(context[b].previousTodos, newTodo[a])
        /\ ContainsObject(CacheData, savedTodo[a]))
       => ContainsObject(GetQueryDataOrEmpty(cache'), savedTodo[a])]_vars

\* C5: the optimistic insert comes first: the submit step leaves the
\* placeholder as first element of the cache entry with no write issued yet,
\* a write is issued only from the state after the insert, and a reconcile or
\* rollback step happens only after the write was issued.
C5_InsertBeforeOutcome ==
  [][\A s \in Subs :
       /\ SubmitStep(s) =>
            /\ cache'.present
            /\ Len(cache'.data) >= 1
            /\ SameObject(cache'.data[1], newTodo'[s])
            /\ newTodo'[s].ref = s
            /\ writes'[s] = 0
       /\ writes'[s] # writes[s] => pc[s] = "optimistic"
       /\ (pc'[s] = "optimistic" /\ pc[s] # "optimistic") => SubmitStep(s)
       /\ (ReconcileStep(s) \/ RollbackStep(s)) =>
            (pc[s] = "inflight" /\ writes[s] >= 1)]_vars

C5_Witness ==
  \E s \in Subs :
    /\ pc[s] = "optimistic"
    /\ writes[s] = 0
    /\ Len(CacheData) >= 2
    /\ SameObject(CacheData[1], newTodo[s])

\* C6: the reconcile step finds its entry by the identity of the submitted
\* object: every other submitted placeholder in the cache (all carry id 0,
\* some have equal field values) stays where it is, and the submission's own
\* placeholder is replaced by the server-returned item.
C6_ReconcileByIdentity ==
  [][\A s \in Subs :
       ReconcileStep(s) =>
         /\ Len(GetQueryDataOrEmpty(cache')) = Len(CacheData)
         /\ \A i \in 1..Len(CacheData) :
              /\ \A t \in Subs \ {s} :
                   (pc[t] # "idle" /\ SameObject(CacheData[i], newTodo[t]))
                     => cache'.data[i] = CacheData[i]
              /\ SameObject(CacheData[i], newTodo[s])
                     => cache'.data[i] = savedTodo'[s]]_vars

C6_Witness ==
  \E s, t \in Subs :
    /\ s # t
    /\ pc[s] = "reconciled"
    /\ Pending(t)
    /\ SameValue(newTodo[s], newTodo[t])
    /\ ContainsObject(CacheData, savedTodo[s])
    /\ ContainsObject(CacheData, newTodo[t])
    /\ ~ContainsObject(CacheData, newTodo[s])

\* C7: when the cache entry does not exist at the time of submit, the
\* optimistic insert creates it as the one-element sequence holding the
\* submitted item, and the snapshot returned as context is the empty sequence.
C7_InsertCreatesEntry ==
  [][\A s \in Subs :
       (SubmitStep(s) /\ ~cache.present) =>
         /\ cache'.present
         /\ cache'.data = <<newTodo'[s]>>
         /\ newTodo'[s].ref = s
         /\ (pc'[s] = "optimistic" =>
               (context'[s].defined /\ context'[s].previousTodos = <<>>))]_vars

C7_Witness ==
  \E s \in Subs :
    /\ pc[s] = "optimistic"
    /\ cache.present
    /\ cache.data = <<newTodo[s]>>
    /\ context[s].defined
    /\ context[s].previousTodos = <<>>
    /\ \A t \in Subs \ {s} : pc[t] = "idle"
    /\ ~fetching

\* the moves of one submission
Transitions ==
  { <<"idle", "optimistic">>, <<"idle", "mutateThrew">>,
    <<"optimistic", "inflight">>, <<"inflight", "reconciled">>,
    <<"inflight", "rolledBack">>, <<"mutateThrew", "errored">> }

\* C8: a submission goes Idle, Optimistic, then at most one of Reconciled and
\* RolledBack: it never leaves a settled state, settles only from Optimistic
\* (write in flight), and a rollback write (the cache entry set to the
\* submission's snapshot by its error handler) is made only by a submission
\* that is not reconciled.
C8_StateMachine ==
  [][\A s \in Subs :
       /\ pc'[s] # pc[s] => <<pc[s], pc'[s]>> \in Transitions
       /\ pc[s] \in {"reconciled", "rolledBack", "errored"} =>
            (pc'[s] = pc[s] /\ mutError'[s] = mutError[s])
       /\ mutError'[s] # mutError[s] => pc'[s] \in {"rolledBack", "errored"}
       /\ pc'[s] = "reconciled" => ~mutError'[s]]_vars

C8_Witness ==
  \E s, t \in Subs :
    /\ pc[s] = "reconciled"
    /\ pc[t] = "rolledBack"
    /\ ~mutError[s]
    /\ mutError[t]

\* C9: when the write of a submission fails, the cache is rolled back, the
\* error is in the error slot the caller reads (addTodo.error), and no
\* further write is issued for the submission (exactly one was).
C9_FailureRecordedInErrorSlot ==
  [][\A s \in Subs :
       /\ RollbackStep(s) =>
            /\ cache' = SetQueryData(context[s].previousTodos)
            /\ AddTodoError'
            /\ writes'[s] = 1
       /\ pc[s] = "rolledBack" => writes'[s] = writes[s]]_vars

\* C9 as amended: the error is recorded in the state of the submission's own
\* mutation; addTodo.error shows it when the submission is the latest one
\* made through the hook.
C9_FailureRecordedInMutation ==
  [][\A s \in Subs :
       /\ RollbackStep(s) =>
            /\ cache' = SetQueryData(context[s].previousTodos)
            /\ mutError'[s]
            /\ (current = s => AddTodoError')
            /\ writes'[s] = 1
       /\ pc[s] = "rolledBack" => writes'[s] = writes[s]]_vars

C9_Witness ==
  \E s \in Subs :
    /\ pc[s] = "rolledBack"
    /\ mutError[s]
    /\ writes[s] = 1
    /\ current # s
    /\ ~AddTodoError

\* C10: when onMutate ends by a throw (no context returned), no optimistic
\* mutation has occurred: the cache entry after the call equals the cache
\* entry before it.
C10_ThrowLeavesCacheUnchanged ==
  [][\A s \in Subs :
       (SubmitStep(s) /\ pc'[s] = "mutateThrew") => cache' = cache]_vars

\* C11: every change of the cache entry is made by the optimistic insert, the
\* reconcile or the rollback step of some submission, and by nothing else.
C11_OnlyWorkflowWrites ==
  [][cache' # cache =>
       \E s \in Subs : SubmitStep(s) \/ ReconcileStep(s) \/ RollbackStep(s)]_vars

\* C11 as amended: besides the three steps of a submission, the entry is
\* written by the result of a fetch of the query on the same key (useTodos)
\* and removed by the cache once the view is gone; nothing else changes it.
C11_WorkflowFetchOrEviction ==
  [][cache' # cache =>
       \/ \E s \in Subs : SubmitStep(s) \/ ReconcileStep(s) \/ RollbackStep(s)
       \/ /\ fetching
          /\ ~fetching'
          /\ cache'.present
          /\ cache'.data \in FetchResults
       \/ /\ ~mounted
          /\ ~fetching
          /\ ~cache'.present]_vars

C11_Witness ==
  \E s \in Subs :
    /\ Pending(s)
    /\ ~fetching
    /\ cache.present
    /\ cache.data = <<FetchedTodo>>

\* C12: no write changes a sequence in place: the snapshot a submission
\* captured is the cache content at the moment of capture and stays that
\* value through every later insert, reconcile, rollback, fetch and eviction.
C12_SnapshotNeverChanges ==
  [][\A s \in Subs :
       /\ (SubmitStep(s) /\ pc'[s] = "optimistic") =>
            (context'[s].defined /\ context'[s].previousTodos = CacheData)
       /\ context[s].defined => context'[s] = context[s]
       /\ (~SubmitStep(s) /\ pc[s] # "idle") => newTodo'[s] = newTodo[s]]_vars

C12_Witness ==
  \E s, t \in Subs :
    /\ s < t
    /\ pc[s] = "inflight"
    /\ context[s].defined
    /\ pc[t] \in {"reconciled", "rolledBack"}
    /\ CacheData # <<newTodo[s]>> \o context[s].previousTodos

\* C13: one submission with no other writer in between, from any cache
\* content c: after the optimistic insert the cache is the submitted item
\* (id 0) followed by c, and after the successful response it is the
\* server-returned item (the server's id, the submitted fields) followed by c.
C13_InsertThenReplace ==
  [][\A s \in Subs :
       /\ SubmitStep(s) =>
            /\ cache'.present
            /\ cache'.data = <<newTodo'[s]>> \o CacheData
            /\ newTodo'[s].id = 0
       /\ (ReconcileStep(s) /\ cache.present
             /\ cache.data = <<newTodo[s]>> \o context[s].previousTodos) =>
            /\ cache'.present
            /\ cache'.data = <<savedTodo'[s]>> \o context[s].previousTodos
            /\ savedTodo'[s].id \in ServerIds
            /\ savedTodo'[s].title = newTodo[s].title
            /\ ~ContainsObject(cache'.data, newTodo[s])]_vars

C13_Witness ==
  \E s \in Subs :
    /\ pc[s] = "reconciled"
    /\ Len(context[s].previousTodos) > 0
    /\ cache.present
    /\ cache.data = <<savedTodo[s]>> \o context[s].previousTodos

\* C14: provided the remote write eventually responds, every submission in
\* the Optimistic state eventually is Reconciled or RolledBack, whether or
\* not the view is torn down meanwhile (Unmount may happen at any point); a
\* settlement step taken without a view still writes the cache entry.
C14_EventuallySettled ==
  /\ \A s \in Subs : Pending(s) ~> (pc[s] \in {"reconciled", "rolledBack"})
  /\ [][\A s \in Subs :
          (RollbackStep(s) /\ ~mounted) =>
            (cache'.present /\ cache'.data = context[s].previousTodos)]_vars

C14_Witness ==
  \E s \in Subs :
    /\ ~mounted
    /\ pc[s] = "rolledBack"
    /\ \A t \in Subs : ~Pending(t)
    /\ cache.present
    /\ cache.data = context[s].previousTodos

\* C15: a failed submission is not fatal: whatever the earlier submissions
\* ended in (RolledBack included), the form still accepts the next submit
\* while it is shown, and that submission can take every step of the
\* workflow: its write can be issued, and can be answered by success or error.
C15_FailureNotFatal ==
  \A t \in Subs :
    /\ (mounted /\ pc[t] = "idle" /\ \A u \in Subs : u < t => pc[u] # "idle") =>
         ENABLED (\E value \in InputValues, onAddThrows \in BOOLEAN :
                    Submit(t, value, onAddThrows))
    /\ pc[t] = "optimistic" => ENABLED MutationFn(t)
    /\ pc[t] = "inflight" =>
         /\ ENABLED (\E sid \in ServerIds : OnSuccess(t, sid))
         /\ ENABLED OnError(t)

C15_Witness ==
  \E s, t \in Subs :
    /\ s < t
    /\ pc[s] = "rolledBack"
    /\ AddTodoError
    /\ mounted
    /\ pc[t] = "idle"
    /\ \A u \in Subs : u < t => pc[u] # "idle"

\* C16: tasksReducer with an ADD action gives action.task followed by the
\* tasks of the input list in their order; the length grows by one, also when
\* a task with the same id is already in the list (no duplicate check).
C16_AddPrepends ==
  \A task \in Tasks :
    LET result == tasksReducer(tasks, AddTask(task))
    IN /\ Len(result) = Len(tasks) + 1
       /\ result[1] = task
       /\ \A i \in 1..Len(tasks) : result[i + 1] = tasks[i]

C16_Witness ==
  /\ Len(tasks) >= 2
  /\ \E i, j \in 1..Len(tasks) : i < j /\ tasks[i].id = tasks[j].id

\* C17: tasksReducer with a DELETE action gives the input list without every
\* task whose id is action.taskId, the other tasks keeping their relative
\* order; with no task of that id the list is unchanged, and an action that
\* is neither ADD nor DELETE gives the input list back.
C17_DeleteFilters ==
  /\ \A taskId \in Timestamps \cup {0} :
       LET result == tasksReducer(tasks, DeleteTask(taskId))
           kept == {i \in 1..Len(tasks) : tasks[i].id # taskId}
       IN /\ \A k \in 1..Len(result) : result[k].id # taskId
          /\ Len(result) = Cardinality(kept)
          /\ \E f \in [1..Len(result) -> 1..Len(tasks)] :
               /\ \A k \in 1..Len(result) : result[k] = tasks[f[k]] /\ f[k] \in kept
               /\ \A k, l \in 1..Len(result) : k < l => f[k] < f[l]
          /\ (kept = 1..Len(tasks) => result = tasks)
  /\ tasksReducer(tasks, OtherTaskAction) = tasks

C17_Witness ==
  /\ Len(tasks) = 3
  /\ tasks[1].id = tasks[3].id
  /\ tasks[2].id # tasks[1].id
  /\ tasks[1] # tasks[3]

RECURSIVE Increments(_, _)
Increments(state, n) ==
  IF n = 0 THEN state ELSE Increments(counterReducer(state, "INCREMENT"), n - 1)

\* C20: counterReducer gives state + 1 for INCREMENT, state - 1 for DECREMENT
\* and 0 for RESET; RESET followed by n INCREMENT gives n, and INCREMENT
\* followed by DECREMENT gives the starting state.
C20_CounterReducer ==
  /\ counterReducer(counter, "INCREMENT") = counter + 1
  /\ counterReducer(counter, "DECREMENT") = counter - 1
  /\ counterReducer(counter, "RESET") = 0
  /\ \A n \in 0..MaxCount : Increments(counterReducer(counter, "RESET"), n) = n
  /\ counterReducer(counterReducer(counter, "INCREMENT"), "DECREMENT") = counter

C20_Witness == counter = 0 - MaxCount

\* the steps of a submission of the form without optimistic update
PlainSuccessStep(s) == pc[s] # "succeeded" /\ pc'[s] = "succeeded"

PlainErrorStep(s) == pc[s] = "inflight" /\ pc'[s] = "errored"

\* what the form without optimistic update does to the cache entry: nothing
\* when the submission is made and when its write fails; on success the
\* server-returned todo is put in front (a one-element entry when there was
\* none); any other change of the entry is a fetch result or an eviction
PlainCacheWrites ==
  /\ \A s \in Subs :
       /\ (SubmitStep(s) \/ PlainErrorStep(s)) => cache' = cache
       /\ PlainSuccessStep(s) =>
            /\ cache'.present
            /\ cache'.data = <<savedTodo'[s]>> \o CacheData
            /\ savedTodo'[s].id \in ServerIds
            /\ (~cache.present => cache'.data = <<savedTodo'[s]>>)
  /\ cache' # cache =>
       \/ \E s \in Subs : PlainSuccessStep(s)
       \/ fetching /\ ~fetching' /\ cache'.present /\ cache'.data \in FetchResults
       \/ ~mounted /\ ~fetching /\ ~cache'.present

C21_NextPageParams ==
  /\ pageParams = [k \in 1..Len(pages) |-> k]
  /\ pageFetch # NoGet =>
       /\ pageFetch.pageParam = Len(pages) + 1
       /\ Len(pages) > 0 => pages[Len(pages)] # <<>>
  /\ \A k \in 1..(Len(pages) - 1) : pages[k] # <<>>

\* C21 witness: three pages were loaded in turn, the third after the second
\* fetchNextPage, and the last one is empty
C21_Witness ==
  /\ Len(pages) >= 3
  /\ pages[Len(pages)] = <<>>
  /\ pageParams[Len(pages)] = Len(pages)
  /\ pageFetch = NoGet

\* C27: every GET of the posts queries, for page p and page size s, asks for
\* the s posts starting at offset (p - 1) * s, so that page 1 starts at offset 0
\* and the windows of consecutive pages are disjoint and contiguous.
C27_PageWindow ==
  /\ pageFetch # NoGet =>
       /\ pageFetch._start = (pageFetch.pageParam - 1) * pageSize
       /\ pageFetch._limit = pageSize
  /\ postsGet # NoGet =>
       postsGet._start = (postsGet.pageParam - 1) * postsGet._limit

\* C22: UsersPage and UserDetail are never on screen, and the location is
\* never under "users", while no user is authenticated; asking for such a
\* location without a user ends at /login with the login page, and with a
\* user it shows UsersPage, with UserDetail showing the id of the location.
C22_PrivateRoutesGuard ==
  /\ [](user = 0 =>
          /\ ~Shows(rendered, "UsersPage")
          /\ ~Shows(rendered, "UserDetail")
          /\ ~IsUsersPath(Location(history)))
  /\ [][\A path \in Paths :
          (GoTo(path) /\ IsUsersPath(path)) =>
            IF user = 0
              THEN /\ Location(history') = LoginPath
                   /\ Shows(rendered', "LoginPage")
              ELSE /\ Location(history') = path
                   /\ Shows(rendered', "UsersPage")
                   /\ Len(path) = 2 =>
                        \E i \in 1..Len(rendered') :
                          rendered'[i] = El("UserDetail", path[2])
                   /\ Len(path) = 1 => ~Shows(rendered', "UserDetail")]_vars

\* C22 witness: without a user, a visit of /users/2 was turned to /login
C22_Witness ==
  /\ user = 0
  /\ Len(history) >= 2
  /\ history[Len(history) - 1] = <<"users", "2">>
  /\ Location(history) = LoginPath
  /\ Shows(rendered, "LoginPage")

\* a submission that is not under way: not made, reconciled or rolled back
Settled(s) == pc[s] \in {"idle", "reconciled", "rolledBack"}

\* the object is the one some submission passed to mutate
IsPlaceholder(todo) == \E s \in Subs : pc[s] # "idle" /\ SameObject(todo, newTodo[s])

\* C23: once every submission has settled and no fetch is in flight, the
\* cache entry holds no placeholder: each item is one fetched from the server
\* or the server's item of a reconciled submission, and nothing of a
\* submission that failed.
C23_NoPlaceholderLeft ==
  ((\A s \in Subs : Settled(s)) /\ ~fetching) =>
    \A i \in 1..Len(CacheData) :
      /\ ~IsPlaceholder(CacheData[i])
      /\ \/ SameObject(CacheData[i], FetchedTodo)
         \/ \E s \in Subs : /\ pc[s] = "reconciled"
                            /\ SameObject(CacheData[i], savedTodo[s])

\* C24: while a submission is Optimistic (inserted, not yet reconciled or
\* rolled back) its placeholder is in the cache entry, also after a fetch
\* result for the key was written.
C24_PlaceholderStays ==
  \A s \in Subs : Pending(s) => ContainsObject(CacheData, newTodo[s])

\* C25: the snapshot a submission captures never holds its own placeholder,
\* and right after the rollback step of a submission its own placeholder is
\* not in the cache entry.
C25_RollbackDropsOwnPlaceholder ==
  /\ [](\A s \in Subs :
          context[s].defined =>
            ~ContainsObject(context[s].previousTodos, newTodo[s]))
  /\ [][\A s \in Subs :
          RollbackStep(s) =>
            ~ContainsObject(GetQueryDataOrEmpty(cache'), newTodo[s])]_vars

\* C25 witness: a submission was rolled back to a snapshot that holds
\* something, and the cache entry is that snapshot
C25_Witness ==
  \E s \in Subs :
    /\ pc[s] = "rolledBack"
    /\ cache.present
    /\ Len(cache.data) > 0
    /\ cache.data = context[s].previousTodos
    /\ ~ContainsObject(cache.data, newTodo[s])

\* C26: the reconcile step changes nothing but the submission's own
\* placeholder: the entry keeps its length, the server's item stands where the
\* placeholder stood, every other item keeps its place, and without the
\* placeholder in the cache the entry is left as it was (absent if absent).
C26_ReconcileFrame ==
  [][\A s \in Subs :
       ReconcileStep(s) =>
         LET old == CacheData
             new == GetQueryDataOrEmpty(cache')
         IN /\ Len(new) = Len(old)
            /\ \A i \in 1..Len(old) :
                 IF SameObject(old[i], newTodo[s])
                   THEN new[i] = savedTodo'[s]
                   ELSE new[i] = old[i]
            /\ ~ContainsObject(old, newTodo[s]) => cache' = cache]_vars

\* C26 witness: a submission was reconciled below the placeholder of a later
\* one, which is still pending in front of it
C26_Witness ==
  \E s, t \in Subs :
    /\ pc[s] = "reconciled"
    /\ Pending(t)
    /\ cache.present
    /\ cache.data = <<newTodo[t], savedTodo[s]>>

====
